---- MODULE Spec2Model ----
(***************************************************************************)
(* Model of scripts/generate_api_docs.py: the public-API comparator of     *)
(* oxidros (oxidros-zenoh against oxidros-rcl).                            *)
(*                                                                         *)
(* A Python str is a sequence of one-character strings, so that regular    *)
(* expression matching, str.strip, str.startswith, the "in" substring      *)
(* test, str.replace, str.split and the ordering of sorted() are computed  *)
(* character by character as Python computes them.  A dict is a sequence   *)
(* of [key, ...] records in insertion order, Python's iteration order.     *)
(***************************************************************************)
EXTENDS Integers, Sequences, FiniteSets

VARIABLES
    pc,                 \* position in main() / in the unit-level call sequence
    zenoh_output,       \* main: zenoh_output
    zenoh_returncode,   \* result.returncode of the oxidros-zenoh run
    zenoh_apis,         \* main: zenoh_apis
    rcl_output,         \* main: rcl_output
    rcl_returncode,     \* result.returncode of the oxidros-rcl run
    rcl_apis,           \* main: rcl_apis
    common,             \* generate_markdown: common
    zenoh_only,         \* generate_markdown: zenoh_only
    rcl_only,           \* generate_markdown: rcl_only
    lines,              \* generate_markdown: lines
    report_file,        \* what output_path holds: <<>> (no file) or <<text>>
    arg_output,         \* extract_apis(output, _) of a direct call
    arg_crate,          \* extract_apis(_, crate_name) of a direct call
    ret_apis,           \* what the direct call of extract_apis returned
    ret_by_module       \* what categorize_by_module(ret_apis) returned

vars == <<pc, zenoh_output, zenoh_returncode, zenoh_apis, rcl_output,
          rcl_returncode, rcl_apis, common, zenoh_only, rcl_only, lines,
          report_file, arg_output, arg_crate, ret_apis, ret_by_module>>

mainVars == <<zenoh_output, zenoh_returncode, zenoh_apis, rcl_output,
              rcl_returncode, rcl_apis, common, zenoh_only, rcl_only, lines,
              report_file>>

unitVars == <<arg_output, arg_crate, ret_apis, ret_by_module>>

----------------------------------------------------------------------------
(* Bounds of the model.                                                    *)

\* Longest listing (in lines) the external tool hands to main().
MaxLines == 2

\* Most characters of the report that reach the file before a write fails.
MaxWritten == 10

----------------------------------------------------------------------------
(* Python str primitives.                                                  *)

\* The character U+0060 (grave accent), which the report's fixed lines hold
\* and a TLA+ string cannot: it is this one-element stand-in wherever a str
\* has that character.
Backtick == "U+0060"

\* The printable ASCII characters in code point order, 32 (space) to 126.
Ascii ==
    <<" ","!","\"","#","$","%","&","'","(",")","*","+",",","-",".","/",
      "0","1","2","3","4","5","6","7","8","9",":",";","<","=",">","?",
      "@","A","B","C","D","E","F","G","H","I","J","K","L","M","N","O",
      "P","Q","R","S","T","U","V","W","X","Y","Z","[","\\","]","^","_",
      Backtick,"a","b","c","d","e","f","g","h","i","j","k","l","m","n","o",
      "p","q","r","s","t","u","v","w","x","y","z","{","|","}","~">>

OrdTable ==
    [c \in {Ascii[i] : i \in DOMAIN Ascii} \cup {"\t", "\n"} |->
        IF c = "\t" THEN 9
        ELSE IF c = "\n" THEN 10
        ELSE 31 + (CHOOSE i \in DOMAIN Ascii : Ascii[i] = c)]

\* ord(c)
Ord(c) == OrdTable[c]

\* What str.strip() removes and \S refuses, among the characters modelled.
Whitespace == {" ", "\t", "\n"}

\* a < b on str: lexicographic by code point.
RECURSIVE StrLess(_, _)
StrLess(a, b) ==
    IF b = <<>> THEN FALSE
    ELSE IF a = <<>> THEN TRUE
    ELSE IF Head(a) = Head(b) THEN StrLess(Tail(a), Tail(b))
    ELSE Ord(Head(a)) < Ord(Head(b))

\* s.startswith(prefix)
StartsWith(s, prefix) ==
    /\ Len(prefix) <= Len(s)
    /\ SubSeq(s, 1, Len(prefix)) = prefix

\* s.find(sub) + 1: the first position of sub in s, 0 when there is none.
Find(s, sub) ==
    LET hits == {i \in 1..(Len(s) - Len(sub) + 1) :
                    SubSeq(s, i, i + Len(sub) - 1) = sub}
    IN  IF hits = {} THEN 0
        ELSE CHOOSE i \in hits : \A j \in hits : i <= j

\* sub in s
Contains(s, sub) == Find(s, sub) # 0

\* s.lstrip()
RECURSIVE LStrip(_)
LStrip(s) ==
    IF s # <<>> /\ Head(s) \in Whitespace THEN LStrip(Tail(s)) ELSE s

\* s.rstrip()
RECURSIVE RStrip(_)
RStrip(s) ==
    IF s # <<>> /\ s[Len(s)] \in Whitespace
    THEN RStrip(SubSeq(s, 1, Len(s) - 1))
    ELSE s

\* s.strip()
Strip(s) == RStrip(LStrip(s))

\* s.replace(old, new), old not empty: every occurrence, left to right,
\* without overlap.
RECURSIVE Replace(_, _, _)
Replace(s, old, new) ==
    IF Len(s) < Len(old) THEN s
    ELSE IF SubSeq(s, 1, Len(old)) = old
         THEN new \o Replace(SubSeq(s, Len(old) + 1, Len(s)), old, new)
         ELSE <<Head(s)>> \o Replace(Tail(s), old, new)

\* s.split(sep), sep not empty.
RECURSIVE Split(_, _)
Split(s, sep) ==
    LET i == Find(s, sep)
    IN  IF i = 0 THEN <<s>>
        ELSE <<SubSeq(s, 1, i - 1)>>
                 \o Split(SubSeq(s, i + Len(sep), Len(s)), sep)

\* sep.join(parts)
RECURSIVE Join(_, _)
Join(parts, sep) ==
    IF parts = <<>> THEN <<>>
    ELSE IF Len(parts) = 1 THEN parts[1]
    ELSE parts[1] \o sep \o Join(Tail(parts), sep)

\* text.splitlines(), the line boundary being "\n".
RECURSIVE SplitLines(_)
SplitLines(text) ==
    LET i == Find(text, <<"\n">>)
    IN  IF text = <<>> THEN <<>>
        ELSE IF i = 0 THEN <<text>>
        ELSE <<SubSeq(text, 1, i - 1)>>
                 \o SplitLines(SubSeq(text, i + 1, Len(text)))

\* str(n) of a natural number.
RECURSIVE Str(_)
Str(n) ==
    LET digit == <<Ascii[17 + (n % 10)]>>
    IN  IF n < 10 THEN digit ELSE Str(n \div 10) \o digit

\* The longest prefix of s matched by \S* .
RECURSIVE NonSpacePrefix(_)
NonSpacePrefix(s) ==
    IF s = <<>> \/ Head(s) \in Whitespace THEN <<>>
    ELSE <<Head(s)>> \o NonSpacePrefix(Tail(s))

----------------------------------------------------------------------------
(* Program constants.                                                      *)

\* crate_name of the first extract_apis call of main()
OXIDROS_ZENOH == <<"o","x","i","d","r","o","s","_","z","e","n","o","h">>
\* crate_name of the second extract_apis call of main()
OXIDROS_RCL == <<"o","x","i","d","r","o","s","_","r","c","l">>
\* the generic prefix of a normalized key
OXIDROS == <<"o","x","i","d","r","o","s">>
\* the path separator
SEP == <<":",":">>
\* what every candidate line starts with
PUB == <<"p","u","b"," ">>

\* patterns: (regular expression, kind) in the order they are tried.  Every
\* expression is "^pub (<keyword>) (<path>)"; for fn the path is \S+::\S+
\* followed by "(", for the others it is \S+.
patterns ==
    << [kind |-> "fn",     keyword |-> <<"f","n">>,     call |-> TRUE],
       [kind |-> "struct", keyword |-> <<"s","t","r","u","c","t">>, call |-> FALSE],
       [kind |-> "enum",   keyword |-> <<"e","n","u","m">>,   call |-> FALSE],
       [kind |-> "type",   keyword |-> <<"t","y","p","e">>,   call |-> FALSE],
       [kind |-> "const",  keyword |-> <<"c","o","n","s","t">>,  call |-> FALSE],
       [kind |-> "mod",    keyword |-> <<"m","o","d">>,    call |-> FALSE],
       [kind |-> "trait",  keyword |-> <<"t","r","a","i","t">>,  call |-> FALSE] >>

\* The dependency fragments of "Skip impl blocks from dependencies".
dependencies ==
    << <<"s","t","a","b","b","y","_","a","b","i">>, <<"p","p","v","_","l","i","t","e","8","6">>, <<"c","r","o","s","s","b","e","a","m","_","e","p","o","c","h">>,
       <<"z","e","n","o","h","_","k","e","y","e","x","p","r">>, <<"a","s","n","1","_","r","s">>, <<"t","y","p","e","n","u","m">>, <<"e","i","t","h","e","r">>,
       <<"t","r","a","c","i","n","g",":",":">>, <<"c","o","r","e",":",":">>, <<"a","l","l","o","c",":",":">>, <<"s","t","d",":",":">> >>

auto_derived_methods ==
    << <<":",":","b","o","r","r","o","w","(">>, <<":",":","b","o","r","r","o","w","_","m","u","t","(">>, <<":",":","f","r","o","m","(">>, <<":",":","i","n","t","o","(">>,
       <<":",":","t","r","y","_","f","r","o","m","(">>, <<":",":","t","r","y","_","i","n","t","o","(">>, <<":",":","t","y","p","e","_","i","d","(">>,
       <<":",":","c","l","o","n","e","(">>, <<":",":","c","l","o","n","e","_","f","r","o","m","(">>, <<":",":","d","e","f","a","u","l","t","(">>,
       <<":",":","e","q","(">>, <<":",":","n","e","(">>, <<":",":","p","a","r","t","i","a","l","_","c","m","p","(">>, <<":",":","c","m","p","(">>,
       <<":",":","h","a","s","h","(">>, <<":",":","f","m","t","(">>,
       <<":",":","g","u","a","r","d","_","m","u","t","_","i","n","n","e","r","(">>, <<":",":","g","u","a","r","d","_","r","e","f","_","i","n","n","e","r","(">>,
       <<":",":","m","u","t","_","a","s","<">>, <<":",":","r","e","f","_","a","s","<">>, <<":",":","a","s","_","n","o","d","e","(">>, <<":",":","a","s","_","n","o","d","e","_","m","u","t","(">>,
       <<":",":","v","z","i","p","(">>, <<":",":","t","o","_","o","w","n","e","d","(">>, <<":",":","c","l","o","n","e","_","i","n","t","o","(">>,
       <<":",":","_","_","c","l","o","n","e","_","b","o","x","(">>, <<":",":","d","e","r","e","f","(">>, <<":",":","d","e","r","e","f","_","m","u","t","(">> >>

\* The fragments of "Skip type aliases for Error, Output, Guard, Init, Owned".
trait_type_aliases ==
    << <<":",":","E","r","r","o","r">>, <<":",":","O","u","t","p","u","t">>, <<":",":","G","u","a","r","d","<">>, <<":",":","G","u","a","r","d","M","u","t","<">>,
       <<":",":","I","n","i","t">>, <<":",":","O","w","n","e","d">>, <<":",":","R","e","q","u","e","s","t">> >>

\* The fragment of "Skip const ALIGN".
ALIGN == <<":",":","A","L","I","G","N">>

\* The module of a path that has no second segment.
ROOT == <<"r","o","o","t">>

----------------------------------------------------------------------------
(* parse_api_line                                                          *)

\* re.match(r"^pub (kw) (\S+)", line): <<path>> (group 2), or <<>>.
MatchPlain(keyword, line) ==
    LET head == PUB \o keyword \o <<" ">>
        path == NonSpacePrefix(SubSeq(line, Len(head) + 1, Len(line)))
    IN  IF StartsWith(line, head) /\ path # <<>> THEN <<path>> ELSE <<>>

\* re.match(r"^pub (fn) (\S+::\S+)\((.*)", line): <<path>> (group 2), or
\* <<>>.  Both \S+ are greedy: the first takes the longest run (a
\* characters) that still lets the rest match, then the second the longest
\* run (b characters) that is followed by "(".
MatchCall(keyword, line) ==
    LET head == PUB \o keyword \o <<" ">>
        tok  == NonSpacePrefix(SubSeq(line, Len(head) + 1, Len(line)))
        Bs(a) == {b \in 1..(Len(tok) - a - 3) : tok[a + 3 + b] = "("}
        As == {a \in 1..(Len(tok) - 4) :
                  /\ SubSeq(tok, a + 1, a + 2) = SEP
                  /\ Bs(a) # {}}
        a0 == CHOOSE a \in As : \A x \in As : x <= a
        b0 == CHOOSE b \in Bs(a0) : \A x \in Bs(a0) : x <= b
    IN  IF StartsWith(line, head) /\ As # {}
        THEN <<SubSeq(tok, 1, a0 + 2 + b0)>>
        ELSE <<>>

\* re.match(pattern, line) for patterns[i]
Match(i, line) ==
    IF patterns[i].call
    THEN MatchCall(patterns[i].keyword, line)
    ELSE MatchPlain(patterns[i].keyword, line)

\* "Only include items from our crate": path.startswith(crate_name)
AnyCrate(path, crate_name) == TRUE
FromOurCrate(path, crate_name) == StartsWith(path, crate_name)

\* "Skip impl blocks from dependencies": any(dep in path for dep in [...])
FromDependency(path) ==
    \E i \in DOMAIN dependencies : Contains(path, dependencies[i])

\* "Skip auto-derived trait methods": any(m in line for m in ...)
AutoDerived(line) ==
    \E i \in DOMAIN auto_derived_methods :
        Contains(line, auto_derived_methods[i])

\* "Skip type aliases for Error, Output, Guard, Init, Owned (from traits)"
NeverNoise(kind, path) == FALSE
TraitTypeAlias(kind, path) ==
    /\ kind = "type"
    /\ \E i \in DOMAIN trait_type_aliases :
           Contains(path, trait_type_aliases[i])

\* "Skip const ALIGN (from Pointable trait)"
ConstAlign(kind, path) == kind = "const" /\ Contains(path, ALIGN)

\* ApiItem(kind, path, signature=line, name, parent)
ApiItem(kind, path, line) ==
    LET parts == Split(path, SEP)
    IN  [kind      |-> kind,
         path      |-> path,
         signature |-> line,
         name      |-> parts[Len(parts)],
         parent    |-> IF Len(parts) > 1
                       THEN Join(SubSeq(parts, 1, Len(parts) - 1), SEP)
                       ELSE <<>>]

\* The body of "for pattern, kind in patterns", from patterns[i] on: the
\* first pattern that matches decides, <<item>> or <<>> (None).
RECURSIVE ParseFrom(_, _, _)
ParseFrom(i, line, crate_name) ==
    IF i > Len(patterns) THEN <<>>
    ELSE LET m    == Match(i, line)
             kind == patterns[i].kind
             path == m[1]
         IN  IF m = <<>> THEN ParseFrom(i + 1, line, crate_name)
             ELSE IF ~FromOurCrate(path, crate_name) THEN <<>>
             ELSE IF FromDependency(path) THEN <<>>
             ELSE IF AutoDerived(line) THEN <<>>
             ELSE IF TraitTypeAlias(kind, path) THEN <<>>
             ELSE IF ConstAlign(kind, path) THEN <<>>
             ELSE <<ApiItem(kind, path, line)>>

\* parse_api_line(line, crate_name): <<item>>, or <<>> for None.
parse_api_line(line, crate_name) == ParseFrom(1, line, crate_name)

----------------------------------------------------------------------------
(* extract_apis                                                            *)

\* list(d.keys()) and set(d.keys())
KeyList(d) == [i \in DOMAIN d |-> d[i].key]
Keys(d) == {d[i].key : i \in DOMAIN d}

\* d[key]
Get(d, key) == d[CHOOSE i \in DOMAIN d : d[i].key = key].item

\* d[key] = item, on a copy of d: a new key goes last, a key already there
\* keeps its place and gets the new item.
DictKeepFirst(d, key, item) ==
    IF key \in Keys(d) THEN d
    ELSE Append(d, [key |-> key, item |-> item])
DictSet(d, key, item) ==
    IF key \in Keys(d)
    THEN [i \in DOMAIN d |->
             IF d[i].key = key THEN [key |-> key, item |-> item] ELSE d[i]]
    ELSE Append(d, [key |-> key, item |-> item])

\* item.path.replace(crate_name, "oxidros")
Normalize(path, crate_name) == Replace(path, crate_name, OXIDROS)

\* line = line.strip()
StripAndMore(raw) == LStrip(Replace(Strip(raw), <<"/","/">>, <<>>))
Stripped(raw) == Strip(raw)

\* One turn of "for line in output.splitlines()" on the dict apis.
ExtractLine(apis, raw, crate_name) ==
    LET line == Stripped(raw)
        item == parse_api_line(line, crate_name)
    IN  IF ~StartsWith(line, PUB) THEN apis
        ELSE IF item = <<>> THEN apis
        ELSE DictSet(apis, Normalize(item[1].path, crate_name), item[1])

RECURSIVE ExtractFrom(_, _, _)
ExtractFrom(apis, rawlines, crate_name) ==
    IF rawlines = <<>> THEN apis
    ELSE ExtractFrom(ExtractLine(apis, Head(rawlines), crate_name),
                     Tail(rawlines), crate_name)

\* extract_apis(output, crate_name)
extract_apis(output, crate_name) ==
    ExtractFrom(<<>>, SplitLines(output), crate_name)

----------------------------------------------------------------------------
(* categorize_by_module                                                    *)

\* by_module[module].append(item) on a defaultdict(list), on a copy.
AppendTo(by_module, module, item) ==
    IF \E i \in DOMAIN by_module : by_module[i].key = module
    THEN [i \in DOMAIN by_module |->
             IF by_module[i].key = module
             THEN [key |-> module, items |-> Append(by_module[i].items, item)]
             ELSE by_module[i]]
    ELSE Append(by_module, [key |-> module, items |-> <<item>>])

\* One turn of "for item in apis.values()".
CategorizeItem(by_module, item) ==
    LET parts == Split(item.path, SEP)
    IN  IF Len(parts) >= 2
        THEN AppendTo(by_module,
                      IF Len(parts) > 1 THEN parts[2] ELSE ROOT, item)
        ELSE by_module

RECURSIVE CategorizeFrom(_, _)
CategorizeFrom(by_module, entries) ==
    IF entries = <<>> THEN by_module
    ELSE CategorizeFrom(CategorizeItem(by_module, Head(entries).item),
                        Tail(entries))

\* categorize_by_module(apis)
categorize_by_module(apis) == CategorizeFrom(<<>>, apis)

----------------------------------------------------------------------------
(* generate_markdown                                                       *)

\* common = zenoh_keys & rcl_keys
Common(zenoh_keys, rcl_keys) == zenoh_keys \cap rcl_keys

\* zenoh_only = zenoh_keys - rcl_keys
ZenohOnly(zenoh_keys, rcl_keys) == zenoh_keys \ rcl_keys

\* rcl_only = rcl_keys - zenoh_keys
AllRcl(zenoh_keys, rcl_keys) == rcl_keys
RclOnly(zenoh_keys, rcl_keys) == rcl_keys \ zenoh_keys

\* sorted(strs) of a set of str
RECURSIVE Sorted(_)
Sorted(strs) ==
    IF strs = {} THEN <<>>
    ELSE LET least == CHOOSE s \in strs : \A t \in strs : ~StrLess(t, s)
         IN  <<least>> \o Sorted(strs \ {least})

\* sorted(items, key=lambda x: x.name): stable, so the first of the items
\* with the least name comes first.
KeepOrder(items) == items
RECURSIVE SortedByName(_)
SortedByName(items) ==
    IF items = <<>> THEN <<>>
    ELSE LET first == CHOOSE i \in DOMAIN items :
                         /\ \A j \in DOMAIN items :
                                ~StrLess(items[j].name, items[i].name)
                         /\ \A j \in 1..(i - 1) :
                                StrLess(items[i].name, items[j].name)
             rest  == SubSeq(items, 1, first - 1)
                          \o SubSeq(items, first + 1, Len(items))
         IN  <<items[first]>> \o SortedByName(rest)

\* parts = key.split("::"); module = parts[1] if len(parts) > 1 else "root"
ModuleOf(key) ==
    LET parts == Split(key, SEP)
    IN  IF Len(parts) > 1 THEN parts[2] ELSE ROOT

\* "for key in sorted(keys): ... x_by_module[module].append(item)", from
\* the keys already sorted.
RECURSIVE GroupFrom(_, _, _)
GroupFrom(by_module, keys, apis) ==
    IF keys = <<>> THEN by_module
    ELSE GroupFrom(AppendTo(by_module, ModuleOf(Head(keys)),
                            Get(apis, Head(keys))),
                   Tail(keys), apis)

\* x_by_module once its loop is over
ByModule(keys, apis) == GroupFrom(<<>>, Sorted(keys), apis)

\* x_by_module[module]
ItemsOf(by_module, module) ==
    by_module[CHOOSE i \in DOMAIN by_module : by_module[i].key = module].items

\* "for item in sorted(items, ...): sig = item.signature.replace(prefix, '')"
SigLines(items, prefix) ==
    LET sorted == SortedByName(items)
    IN  [i \in DOMAIN sorted |-> Replace(sorted[i].signature, prefix, <<>>)]

\* The lines one module adds to the report.
ModuleLines(module, items, prefix) ==
    << <<"#","#","#"," ">> \o module, <<>>, <<Backtick,Backtick,Backtick,"r","u","s","t">> >>
        \o SigLines(items, prefix)
        \o << <<Backtick,Backtick,Backtick>>, <<>> >>

RECURSIVE ModulesFrom(_, _, _)
ModulesFrom(modules, by_module, prefix) ==
    IF modules = <<>> THEN <<>>
    ELSE ModuleLines(Head(modules), ItemsOf(by_module, Head(modules)), prefix)
             \o ModulesFrom(Tail(modules), by_module, prefix)

\* "for module in sorted(x_by_module.keys())" of one section
SectionLines(keys, apis, prefix) ==
    LET by_module == ByModule(keys, apis)
    IN  ModulesFrom(Sorted(Keys(by_module)), by_module, prefix)

ZENOH_PREFIX == <<"o","x","i","d","r","o","s","_","z","e","n","o","h",":",":">>
RCL_PREFIX == <<"o","x","i","d","r","o","s","_","r","c","l",":",":">>

TITLE == <<"#"," ","O","x","i","d","r","o","s"," ","A","P","I"," ","R","e","f","e","r","e","n","c","e">>
SUMMARY == <<"#","#"," ","S","u","m","m","a","r","y">>
COMMON_TITLE == <<"#","#"," ","C","o","m","m","o","n"," ","A","P","I","s"," ","(","B","o","t","h"," ","B","a","c","k","e","n","d","s",")">>
ZENOH_TITLE == <<"#","#"," ","Z","e","n","o","h","-","O","n","l","y"," ","A","P","I","s">>
RCL_TITLE == <<"#","#"," ","R","C","L","-","O","n","l","y"," ","A","P","I","s">>
RULE == <<"-","-","-">>

\* The summary row of a count: f"| <label> | {len(keys)} |"
CountRow(label, n) == <<"|"," ">> \o label \o <<" ","|"," ">> \o Str(n) \o <<" ","|">>

COMMON_LABEL == <<"C","o","m","m","o","n"," ","A","P","I","s">>
ZENOH_LABEL == <<"Z","e","n","o","h","-","o","n","l","y"," ","A","P","I","s">>
RCL_LABEL == <<"R","C","L","-","o","n","l","y"," ","A","P","I","s">>

HeaderLines(n_common, n_zenoh, n_rcl) ==
    << TITLE,
       <<>>,
       <<"T","h","i","s"," ","d","o","c","u","m","e","n","t"," ","i","s"," ","a","u","t","o","-","g","e","n","e","r","a","t","e","d"," ","b","y"," ",Backtick,"s","c","r","i","p","t","s","/","g","e","n","e","r","a","t","e","_","a","p","i","_","d","o","c","s",".","p","y",Backtick,".">>,
       <<>>,
       SUMMARY,
       <<>>,
       <<"|"," ","C","a","t","e","g","o","r","y"," ","|"," ","C","o","u","n","t"," ","|">>,
       <<"|","-","-","-","-","-","-","-","-","-","-","|","-","-","-","-","-","-","-","|">>,
       CountRow(COMMON_LABEL, n_common),
       CountRow(ZENOH_LABEL, n_zenoh),
       CountRow(RCL_LABEL, n_rcl),
       <<>>,
       RULE,
       <<>> >>

CommonIntro ==
    << COMMON_TITLE,
       <<>>,
       <<"T","h","e","s","e"," ","A","P","I","s"," ","a","r","e"," ","a","v","a","i","l","a","b","l","e"," ","i","n"," ","b","o","t","h"," ",Backtick,"o","x","i","d","r","o","s","-","r","c","l",Backtick," ","a","n","d"," ",Backtick,"o","x","i","d","r","o","s","-","z","e","n","o","h",Backtick," ","w","i","t","h"," ","t","h","e"," ","s","a","m","e"," ","s","i","g","n","a","t","u","r","e",".">>,
       <<>> >>

ZenohIntro ==
    << RULE,
       <<>>,
       ZENOH_TITLE,
       <<>>,
       <<"T","h","e","s","e"," ","A","P","I","s"," ","a","r","e"," ","s","p","e","c","i","f","i","c"," ","t","o"," ",Backtick,"o","x","i","d","r","o","s","-","z","e","n","o","h",Backtick,".">>,
       <<>> >>

RclIntro ==
    << RULE,
       <<>>,
       RCL_TITLE,
       <<>>,
       <<"T","h","e","s","e"," ","A","P","I","s"," ","a","r","e"," ","s","p","e","c","i","f","i","c"," ","t","o"," ",Backtick,"o","x","i","d","r","o","s","-","r","c","l",Backtick,".">>,
       <<>> >>

\* lines, as generate_markdown has it when it writes
ReportLines(z_apis, r_apis) ==
    LET zenoh_keys == Keys(z_apis)
        rcl_keys   == Keys(r_apis)
        c  == Common(zenoh_keys, rcl_keys)
        zo == ZenohOnly(zenoh_keys, rcl_keys)
        ro == RclOnly(zenoh_keys, rcl_keys)
    IN  HeaderLines(Cardinality(c), Cardinality(zo), Cardinality(ro))
            \o CommonIntro \o SectionLines(c, z_apis, ZENOH_PREFIX)
            \o ZenohIntro \o SectionLines(zo, z_apis, ZENOH_PREFIX)
            \o RclIntro \o SectionLines(ro, r_apis, RCL_PREFIX)

----------------------------------------------------------------------------
(* run_cargo_public_api                                                    *)

\* What run_cargo_public_api returns for a run of the tool that ended with
\* returncode and printed stdout.
StdoutAnyway(returncode, stdout) == stdout
run_cargo_public_api(returncode, stdout) ==
    IF returncode # 0 THEN <<>> ELSE stdout

----------------------------------------------------------------------------
(* The listings the external tool may print.                               *)

ZenohLines ==
    { <<"p","u","b"," ","f","n"," ","o","x","i","d","r","o","s","_","z","e","n","o","h",":",":","C","o","n","t","e","x","t",":",":","n","e","w","(",")"," ","-",">"," ","S","e","l","f">>,
      <<"p","u","b"," ","f","n"," ","o","x","i","d","r","o","s","_","z","e","n","o","h",":",":","C","o","n","t","e","x","t",":",":","c","l","o","n","e","(","&","s","e","l","f",")"," ","-",">"," ","S","e","l","f">>,
      <<"p","u","b"," ","f","n"," ","o","x","i","d","r","o","s","_","z","e","n","o","h",":",":","C","o","n","t","e","x","t",":",":","n","e","w","(","u","8",")"," ","-",">"," ","S","e","l","f">>,
      <<"p","u","b"," ","m","o","d"," ","o","x","i","d","r","o","s","_","z","e","n","o","h">>,
      <<"p","u","b"," ","m","o","d"," ","o","x","i","d","r","o","s","_","z","e","n","o","h",":",":","o","x","i","d","r","o","s","_","r","c","l">>,
      <<"p","u","b"," ","m","o","d"," ","o","x","i","d","r","o","s","_","z","e","n","o","h",":",":","C","o","n","t","e","x","t",":",":","a",":",":","z">> }

RclLines ==
    { <<"p","u","b"," ","f","n"," ","o","x","i","d","r","o","s","_","r","c","l",":",":","C","o","n","t","e","x","t",":",":","n","e","w","(",")"," ","-",">"," ","S","e","l","f">>,
      <<"p","u","b"," ","m","o","d"," ","o","x","i","d","r","o","s","_","r","c","l">>,
      <<"p","u","b"," ","m","o","d"," ","o","x","i","d","r","o","s","_","r","c","l",":",":","o","x","i","d","r","o","s","_","r","c","l">> }

\* The text of a listing: every line ends with a line feed.
RECURSIVE Listing(_)
Listing(ls) ==
    IF ls = <<>> THEN <<>>
    ELSE Head(ls) \o <<"\n">> \o Listing(Tail(ls))

\* Every listing of at most MaxLines lines of pool.
Listings(pool) ==
    {Listing(ls) : ls \in UNION {[1..n -> pool] : n \in 0..MaxLines}}

----------------------------------------------------------------------------
(* main                                                                    *)

\* What output_path holds when main() starts: no file, or the report an
\* earlier run wrote (here the one of a run that found no API at all).
OldReports == {<<>>, <<Join(ReportLines(<<>>, <<>>), <<"\n">>)>>}

Init ==
    /\ pc = "run_zenoh"
    /\ zenoh_output = <<>>
    /\ zenoh_returncode = 0
    /\ zenoh_apis = <<>>
    /\ rcl_output = <<>>
    /\ rcl_returncode = 0
    /\ rcl_apis = <<>>
    /\ common = {}
    /\ zenoh_only = {}
    /\ rcl_only = {}
    /\ lines = <<>>
    /\ report_file \in OldReports
    /\ arg_output = <<>>
    /\ arg_crate = <<>>
    /\ ret_apis = <<>>
    /\ ret_by_module = <<>>

\* zenoh_output = run_cargo_public_api("oxidros-zenoh")
RunZenoh ==
    /\ pc = "run_zenoh"
    /\ \E returncode \in {0, 1}, stdout \in Listings(ZenohLines) :
           /\ zenoh_returncode' = returncode
           /\ zenoh_output' = run_cargo_public_api(returncode, stdout)
    /\ pc' = "extract_zenoh"
    /\ UNCHANGED <<zenoh_apis, rcl_output, rcl_returncode, rcl_apis, common,
                   zenoh_only, rcl_only, lines, report_file>>
    /\ UNCHANGED unitVars

\* zenoh_apis = extract_apis(zenoh_output, "oxidros_zenoh")
ExtractZenoh ==
    /\ pc = "extract_zenoh"
    /\ zenoh_apis' = extract_apis(zenoh_output, OXIDROS_ZENOH)
    /\ pc' = "run_rcl"
    /\ UNCHANGED <<zenoh_output, zenoh_returncode, rcl_output, rcl_returncode,
                   rcl_apis, common, zenoh_only, rcl_only, lines, report_file>>
    /\ UNCHANGED unitVars

\* rcl_output = run_cargo_public_api("oxidros-rcl", args.rcl_features)
RunRcl ==
    /\ pc = "run_rcl"
    /\ \E returncode \in {0, 1}, stdout \in Listings(RclLines) :
           /\ rcl_returncode' = returncode
           /\ rcl_output' = run_cargo_public_api(returncode, stdout)
    /\ pc' = "extract_rcl"
    /\ UNCHANGED <<zenoh_output, zenoh_returncode, zenoh_apis, rcl_apis,
                   common, zenoh_only, rcl_only, lines, report_file>>
    /\ UNCHANGED unitVars

\* rcl_apis = extract_apis(rcl_output, "oxidros_rcl")
ExtractRcl ==
    /\ pc = "extract_rcl"
    /\ rcl_apis' = extract_apis(rcl_output, OXIDROS_RCL)
    /\ pc' = "generate"
    /\ UNCHANGED <<zenoh_output, zenoh_returncode, zenoh_apis, rcl_output,
                   rcl_returncode, common, zenoh_only, rcl_only, lines,
                   report_file>>
    /\ UNCHANGED unitVars

\* output_path.write_text(text): the file is opened for writing, which
\* empties it, and text is written to it. A write that fails raises OSError
\* and leaves in the file the characters that went out before it: the first
\* n of text, for an n of at most MaxWritten here.
WriteFailures(text) ==
    {SubSeq(text, 1, n) : n \in 0..(IF Len(text) < MaxWritten THEN Len(text)
                                    ELSE MaxWritten)}

\* generate_markdown(zenoh_apis, rcl_apis, output_path): the report is
\* rendered in memory; then the parent directory is made and the file is
\* written. main() catches no exception: a raise while the directory is made
\* or the file is opened leaves output_path as it was, a raise in the write
\* leaves the file emptied or partly written.
GenerateMarkdown ==
    /\ pc = "generate"
    /\ common' = Common(Keys(zenoh_apis), Keys(rcl_apis))
    /\ zenoh_only' = ZenohOnly(Keys(zenoh_apis), Keys(rcl_apis))
    /\ rcl_only' = RclOnly(Keys(zenoh_apis), Keys(rcl_apis))
    /\ lines' = ReportLines(zenoh_apis, rcl_apis)
    /\ \/ /\ report_file' = <<Join(lines', <<"\n">>)>>
          /\ pc' = "done"
       \/ /\ report_file' = report_file
          /\ pc' = "raised"
       \/ /\ \E partial \in WriteFailures(Join(lines', <<"\n">>)) :
                 report_file' = <<partial>>
          /\ pc' = "raised"
    /\ UNCHANGED <<zenoh_output, zenoh_returncode, zenoh_apis, rcl_output,
                   rcl_returncode, rcl_apis>>
    /\ UNCHANGED unitVars

Next ==
    \/ RunZenoh
    \/ ExtractZenoh
    \/ RunRcl
    \/ ExtractRcl
    \/ GenerateMarkdown

Spec == Init /\ [][Next]_vars

----------------------------------------------------------------------------
(* Direct calls of extract_apis and categorize_by_module on one line.      *)

CrateNames == {OXIDROS_ZENOH, OXIDROS_RCL}

Keywords == {PUB \o patterns[i].keyword \o <<" ">> : i \in DOMAIN patterns}

\* What a line may begin with instead of "pub <keyword> ".
OtherHeads ==
    { <<"f","n"," ">>, <<"/","/"," ","p","u","b"," ","s","t","r","u","c","t"," ">>, <<"p","u","b","(","c","r","a","t","e",")"," ","m","o","d"," ">>, <<"p","u","b"," "," ","m","o","d"," ">> }

\* What may stand before the first character of a line.
Leads == { <<>>, <<" "," ">>, <<"\t">> }

\* Paths outside both crates.
ForeignPaths == { <<"c","o","r","e",":",":","f","m","t",":",":","D","e","b","u","g">>, <<"o","x","i","d","r","o","s","_","c","o","r","e",":",":","N","o","d","e">>, <<"z","e","n","o","h">> }

\* What may follow the crate name in a path.
PlainSuffixes ==
    { <<>>, <<":",":","C","o","n","t","e","x","t">>, <<":",":","C","o","n","t","e","x","t",":",":","n","e","w">>, <<"_","z","e","n","o","h">>, <<"_","r","c","l",":",":","x">>,
      <<":",":","o","x","i","d","r","o","s","_","r","c","l">>, <<":",":","N","o","d","e",":",":","G","u","a","r","d">>, <<":",":","E","r","r","o","r","K","i","n","d">> }

NoiseSuffixes ==
    {SEP \o dependencies[i] \o <<"x">> : i \in DOMAIN dependencies}
        \cup {<<":",":","X">> \o auto_derived_methods[i] :
                 i \in DOMAIN auto_derived_methods}
        \cup {<<":",":","X">> \o trait_type_aliases[i] :
                 i \in DOMAIN trait_type_aliases}
        \cup {<<":",":","X">> \o ALIGN}

\* What may follow the path.
Tails == { <<>>, <<"(",")"," ","-",">"," ","S","e","l","f">>, <<"(","d",":"," ","c","o","r","e",":",":","t","i","m","e",":",":","D","u","r","a","t","i","o","n",")">>, <<" ","="," ","u","8"," ">> }

UnitLines ==
    {lead \o head \o path \o tail :
        lead \in Leads,
        head \in Keywords \cup OtherHeads,
        path \in ForeignPaths
                    \cup {c \o s : c \in CrateNames, s \in PlainSuffixes},
        tail \in Tails}
    \cup
    {head \o c \o s \o tail :
        head \in Keywords, c \in CrateNames, s \in NoiseSuffixes,
        tail \in {<<>>, <<"(",")"," ","-",">"," ","S","e","l","f">>}}

InitUnit ==
    /\ pc = "call_extract"
    /\ arg_output \in UnitLines
    /\ arg_crate \in CrateNames
    /\ ret_apis = <<>>
    /\ ret_by_module = <<>>
    /\ zenoh_output = <<>>
    /\ zenoh_returncode = 0
    /\ zenoh_apis = <<>>
    /\ rcl_output = <<>>
    /\ rcl_returncode = 0
    /\ rcl_apis = <<>>
    /\ common = {}
    /\ zenoh_only = {}
    /\ rcl_only = {}
    /\ lines = <<>>
    /\ report_file = <<>>

\* ret_apis = extract_apis(arg_output, arg_crate)
ExtractCall ==
    /\ pc = "call_extract"
    /\ ret_apis' = extract_apis(arg_output, arg_crate)
    /\ pc' = "call_categorize"
    /\ UNCHANGED <<arg_output, arg_crate, ret_by_module>>
    /\ UNCHANGED mainVars

\* ret_by_module = categorize_by_module(ret_apis)
CategorizeCall ==
    /\ pc = "call_categorize"
    /\ ret_by_module' = categorize_by_module(ret_apis)
    /\ pc' = "returned"
    /\ UNCHANGED <<arg_output, arg_crate, ret_apis>>
    /\ UNCHANGED mainVars

NextUnit ==
    \/ ExtractCall
    \/ CategorizeCall

SpecUnit == InitUnit /\ [][NextUnit]_vars

----------------------------------------------------------------------------
(* Vocabulary of the properties.                                           *)

\* s without its leading and trailing whitespace, said without recursion:
\* from its first to its last character that is not whitespace.
Trim(s) ==
    LET solid == {i \in DOMAIN s : s[i] \notin Whitespace}
    IN  IF solid = {} THEN <<>>
        ELSE SubSeq(s, CHOOSE i \in solid : \A j \in solid : i <= j,
                       CHOOSE i \in solid : \A j \in solid : j <= i)

\* Every order the entries of a dict may have been inserted in.
Orders(d) ==
    {[i \in DOMAIN d |-> d[f[i]]] :
        f \in {g \in [DOMAIN d -> DOMAIN d] :
                  \A i, j \in DOMAIN d : i # j => g[i] # g[j]}}

\* The last segment of a path.
LastSegment(path) == Split(path, SEP)[Len(Split(path, SEP))]

\* The records of a registry, and of a grouping by module.
Records(apis) == {apis[i].item : i \in DOMAIN apis}
Grouped(by_module) ==
    UNION {{by_module[i].items[j] : j \in DOMAIN by_module[i].items} :
              i \in DOMAIN by_module}

\* main() is past generate_markdown's rendering.
Rendered == pc \in {"done", "raised"}

\* The direct call of extract_apis has returned.
Extracted == pc \in {"call_categorize", "returned"}

\* The line of the direct call, as extract_apis hands it to parse_api_line.
UnitLine == Trim(arg_output)

\* The grammars UnitLine matches.
Grammars == {i \in DOMAIN patterns : Match(i, UnitLine) # <<>>}

\* UnitLine is otherwise valid: it starts with "pub ", matches a grammar and
\* its path starts with the component name.
OtherwiseValid(i) ==
    /\ StartsWith(UnitLine, PUB)
    /\ i \in Grammars
    /\ StartsWith(Match(i, UnitLine)[1], arg_crate)

----------------------------------------------------------------------------
(* C1 *)

\* C1: once generate_markdown has computed them, common, zenoh_only and
\* rcl_only are pairwise disjoint and their union is the union of the key
\* sets of the two registries.
PartitionLaw ==
    Rendered =>
        /\ common \cap zenoh_only = {}
        /\ common \cap rcl_only = {}
        /\ zenoh_only \cap rcl_only = {}
        /\ common \cup zenoh_only \cup rcl_only
               = Keys(zenoh_apis) \cup Keys(rcl_apis)

\* A report whose three sets all have a member.
PartitionWitness ==
    /\ pc = "done"
    /\ common # {}
    /\ zenoh_only # {}
    /\ rcl_only # {}

----------------------------------------------------------------------------
(* C2 *)

\* la and lb match the same grammar and differ only in the component name
\* their paths start with: oxidros_zenoh in la, oxidros_rcl in lb.
DifferOnlyInCrate(la, lb) ==
    \E i \in DOMAIN patterns :
        LET head == PUB \o patterns[i].keyword \o <<" ">>
            ra == SubSeq(la, Len(head) + 1, Len(la))
            rb == SubSeq(lb, Len(head) + 1, Len(lb))
        IN  /\ Match(i, la) # <<>>
            /\ Match(i, lb) # <<>>
            /\ StartsWith(ra, OXIDROS_ZENOH)
            /\ StartsWith(rb, OXIDROS_RCL)
            /\ SubSeq(ra, Len(OXIDROS_ZENOH) + 1, Len(ra))
                   = SubSeq(rb, Len(OXIDROS_RCL) + 1, Len(rb))

ExampleNew == <<"p","u","b"," ","f","n"," ","o","x","i","d","r","o","s","_","z","e","n","o","h",":",":","C","o","n","t","e","x","t",":",":","n","e","w","(",")"," ","-",">"," ","S","e","l","f">>
ExampleClone == <<"p","u","b"," ","f","n"," ","o","x","i","d","r","o","s","_","z","e","n","o","h",":",":","C","o","n","t","e","x","t",":",":","c","l","o","n","e","(","&","s","e","l","f",")"," ","-",">"," ","S","e","l","f">>
ExampleRclNew == <<"p","u","b"," ","f","n"," ","o","x","i","d","r","o","s","_","r","c","l",":",":","C","o","n","t","e","x","t",":",":","n","e","w","(",")"," ","-",">"," ","S","e","l","f">>

\* The example of the specification: A lists new and clone, B lists new.
IsExample ==
    /\ zenoh_output = Listing(<<ExampleNew, ExampleClone>>)
    /\ rcl_output = Listing(<<ExampleRclNew>>)

\* In the example each registry holds one record and the summary counts are
\* Common=1, A-only=0, B-only=0.
ExampleCounts ==
    (Rendered /\ IsExample) =>
        /\ Len(zenoh_apis) = 1
        /\ Len(rcl_apis) = 1
        /\ common = {<<"o","x","i","d","r","o","s",":",":","C","o","n","t","e","x","t",":",":","n","e","w">>}
        /\ lines[9] = <<"|"," ","C","o","m","m","o","n"," ","A","P","I","s"," ","|"," ","1"," ","|">>
        /\ lines[10] = <<"|"," ","Z","e","n","o","h","-","o","n","l","y"," ","A","P","I","s"," ","|"," ","0"," ","|">>
        /\ lines[11] = <<"|"," ","R","C","L","-","o","n","l","y"," ","A","P","I","s"," ","|"," ","0"," ","|">>

\* C2: two lines that yield records and differ only in the component name
\* at the start of the path are held under the same normalized key, which is
\* in common and in neither only-set; and the example's counts are 1, 0, 0.
CrossComponentComparable ==
    Rendered =>
        /\ \A a \in DOMAIN SplitLines(zenoh_output),
              b \in DOMAIN SplitLines(rcl_output) :
               LET la == Trim(SplitLines(zenoh_output)[a])
                   lb == Trim(SplitLines(rcl_output)[b])
                   ia == parse_api_line(la, OXIDROS_ZENOH)
                   ib == parse_api_line(lb, OXIDROS_RCL)
               IN  (DifferOnlyInCrate(la, lb) /\ ia # <<>> /\ ib # <<>>) =>
                       \E k \in common :
                           /\ k = Normalize(ia[1].path, OXIDROS_ZENOH)
                           /\ k = Normalize(ib[1].path, OXIDROS_RCL)
                           /\ k \notin zenoh_only
                           /\ k \notin rcl_only
        /\ ExampleCounts

----------------------------------------------------------------------------
(* C3 *)

Placeholders == { <<"E","r","r","o","r">>, <<"O","u","t","p","u","t">>, <<"I","n","i","t">>, <<"O","w","n","e","d">>, <<"R","e","q","u","e","s","t">> }

\* The noise of the claim as written: a dependency fragment anywhere in the
\* line, Guard among the placeholder names.
NoiseAsClaimed(i) ==
    LET path == Match(i, UnitLine)[1]
    IN  \/ \E d \in DOMAIN dependencies : Contains(UnitLine, dependencies[d])
        \/ \E m \in DOMAIN auto_derived_methods :
               Contains(UnitLine, auto_derived_methods[m])
        \/ /\ patterns[i].kind = "type"
           /\ LastSegment(path) \in Placeholders \cup { <<"G","u","a","r","d">> }
        \/ /\ patterns[i].kind = "const"
           /\ LastSegment(path) = <<"A","L","I","G","N">>

\* The noise the code drops: a dependency fragment in the path; Guard and
\* GuardMut only with their generic parameters.
Noise(i) ==
    LET path == Match(i, UnitLine)[1]
    IN  \/ \E d \in DOMAIN dependencies : Contains(path, dependencies[d])
        \/ \E m \in DOMAIN auto_derived_methods :
               Contains(UnitLine, auto_derived_methods[m])
        \/ /\ patterns[i].kind = "type"
           /\ \/ LastSegment(path) \in Placeholders
              \/ StartsWith(LastSegment(path), <<"G","u","a","r","d","<">>)
              \/ StartsWith(LastSegment(path), <<"G","u","a","r","d","M","u","t","<">>)
        \/ /\ patterns[i].kind = "const"
           /\ LastSegment(path) = <<"A","L","I","G","N">>

\* C3, as written: an otherwise-valid line that holds a dependency fragment
\* or a synthesized-method fragment, or is a type alias ending in Error,
\* Output, Guard, Init, Owned or Request, or a constant ending in ALIGN,
\* leaves the registry empty.
NoiseExcludedAsClaimed ==
    Extracted =>
        \A i \in DOMAIN patterns :
            (OtherwiseValid(i) /\ NoiseAsClaimed(i)) => ret_apis = <<>>

\* C3, amended: an otherwise-valid line leaves the registry empty when its
\* path holds a dependency fragment, or the line holds a synthesized-method
\* fragment, or it is a type alias whose last segment is Error, Output,
\* Init, Owned or Request or begins with "Guard<" or "GuardMut<", or it is
\* a constant whose last segment is ALIGN.
NoiseExcluded ==
    Extracted =>
        \A i \in DOMAIN patterns :
            (OtherwiseValid(i) /\ Noise(i)) => ret_apis = <<>>

\* An otherwise-valid type alias ending in a placeholder name was extracted.
NoiseWitness ==
    /\ Extracted
    /\ \E i \in DOMAIN patterns :
           /\ OtherwiseValid(i)
           /\ patterns[i].kind = "type"
           /\ LastSegment(Match(i, UnitLine)[1]) \in Placeholders
    /\ ret_apis = <<>>

----------------------------------------------------------------------------
(* C4 *)

\* C4: normalizing the key of a record, itself the normalized path of an
\* accepted line, returns it unchanged.
NormalizeIdempotent ==
    Extracted =>
        \A i \in DOMAIN ret_apis :
            /\ ret_apis[i].key = Normalize(ret_apis[i].item.path, arg_crate)
            /\ Normalize(ret_apis[i].key, arg_crate) = ret_apis[i].key

----------------------------------------------------------------------------
(* C5 *)

\* C5: the per-module sequences hold every record of the registry, both
\* those of generate_markdown's grouping and those of categorize_by_module.
GroupingKeepsAll ==
    pc = "returned" =>
        /\ Grouped(ByModule(Keys(ret_apis), ret_apis)) = Records(ret_apis)
        /\ Grouped(ret_by_module) = Records(ret_apis)

----------------------------------------------------------------------------
(* C6 *)

\* C6, as written: every record comes from a raw line that begins with
\* "pub ".
OnlyRawPubLines ==
    Extracted =>
        \A i \in DOMAIN ret_apis :
            \E r \in DOMAIN SplitLines(arg_output) :
                /\ StartsWith(SplitLines(arg_output)[r], PUB)
                /\ Trim(SplitLines(arg_output)[r]) = ret_apis[i].item.signature

\* C6, amended: every record comes from a raw line that begins with "pub "
\* once its leading and trailing whitespace is removed; a line that does
\* not, never produces a record.
OnlyPubLines ==
    Extracted =>
        \A i \in DOMAIN ret_apis :
            \E r \in DOMAIN SplitLines(arg_output) :
                /\ StartsWith(Trim(SplitLines(arg_output)[r]), PUB)
                /\ Trim(SplitLines(arg_output)[r]) = ret_apis[i].item.signature

\* A line with something other than "pub " after its leading whitespace
\* was handed to extract_apis, and produced nothing.
OnlyPubLinesWitness ==
    /\ Extracted
    /\ arg_output # <<>>
    /\ arg_output[1] \in Whitespace
    /\ ~StartsWith(Trim(arg_output), PUB)
    /\ Contains(arg_output, PUB)
    /\ ret_apis = <<>>

----------------------------------------------------------------------------
(* C7 *)

\* C7: a line that matches a grammar with a path that does not start with
\* the component name produces no record, whatever the other grammars.
ForeignPathRejected ==
    Extracted =>
        \A i \in Grammars :
            ~StartsWith(Match(i, UnitLine)[1], arg_crate) => ret_apis = <<>>

\* A line of the other component, free of noise, was extracted.
ForeignPathWitness ==
    /\ Extracted
    /\ StartsWith(UnitLine, PUB)
    /\ \E i \in Grammars :
           /\ ~StartsWith(Match(i, UnitLine)[1], arg_crate)
           /\ \E c \in CrateNames : StartsWith(Match(i, UnitLine)[1], c)
           /\ ~Noise(i)
    /\ ret_apis = <<>>

----------------------------------------------------------------------------
(* C8 *)

\* What the run shows of a component whose tool run failed: empty output,
\* then an empty registry, then an empty only-set.
Degenerate(returncode, output, apis, only, ran, extracted) ==
    (returncode # 0) =>
        /\ ran => output = <<>>
        /\ extracted => apis = <<>>
        /\ Rendered => (only = {} /\ common = {})

\* C8: a non-zero exit of the tool for one component does not stop the run:
\* the component's output is the empty text, its registry is empty, and the
\* report is rendered (nothing raises before the write) and written, with
\* common and the component's only-set empty and the other only-set holding
\* every key of the other registry.
FailedToolDegenerateReport ==
    /\ Degenerate(zenoh_returncode, zenoh_output, zenoh_apis, zenoh_only,
                  pc # "run_zenoh", pc \notin {"run_zenoh", "extract_zenoh"})
    /\ Degenerate(rcl_returncode, rcl_output, rcl_apis, rcl_only,
                  pc \notin {"run_zenoh", "extract_zenoh", "run_rcl"},
                  pc \in {"generate", "done", "raised"})
    /\ (Rendered /\ zenoh_returncode # 0) => rcl_only = Keys(rcl_apis)
    /\ (Rendered /\ rcl_returncode # 0) => zenoh_only = Keys(zenoh_apis)
    /\ (Rendered /\ (zenoh_returncode # 0 \/ rcl_returncode # 0)) =>
           /\ lines[9] = CountRow(COMMON_LABEL, 0)
           /\ lines[10] = CountRow(ZENOH_LABEL, Cardinality(zenoh_only))
           /\ lines[11] = CountRow(RCL_LABEL, Cardinality(rcl_only))
    /\ pc = "done" => report_file = <<Join(lines, <<"\n">>)>>
    /\ pc = "raised" => lines # <<>>

\* The report was written after the oxidros-zenoh run failed, with records
\* of oxidros-rcl in it.
FailedToolWitness ==
    /\ pc = "done"
    /\ zenoh_returncode # 0
    /\ rcl_returncode = 0
    /\ rcl_only # {}
    /\ report_file # <<>>

----------------------------------------------------------------------------
(* C9 *)

\* Where a fixed line stands in the report.
LineOf(title) == CHOOSE i \in DOMAIN lines : lines[i] = title

\* The lines of the report that are module headings between two places.
HeadingsIn(from, to) ==
    {i \in from..to : StartsWith(lines[i], <<"#","#","#"," ">>)}

\* The signature lines under the heading at h: from the line after the
\* opening fence to the line before the closing one.
BlockOf(h) ==
    LET close == CHOOSE e \in (h + 3)..Len(lines) :
                     /\ lines[e] = <<Backtick,Backtick,Backtick>>
                     /\ \A x \in (h + 3)..(e - 1) : lines[x] # <<Backtick,Backtick,Backtick>>
    IN  SubSeq(lines, h + 3, close - 1)

\* One section of the report, from line from to line to, lists the records
\* of keys in apis: its headings are in ascending order, and the block
\* under each heading shows the records of that module, each once, in an
\* order in which no name comes before a lesser one.
SectionSorted(from, to, keys, apis, prefix) ==
    LET hs == HeadingsIn(from, to)
        module(h) == SubSeq(lines[h], 5, Len(lines[h]))
    IN  /\ \A g, h \in hs : g < h => StrLess(module(g), module(h))
        /\ {module(h) : h \in hs} = {ModuleOf(k) : k \in keys}
        /\ \A h \in hs :
               LET ks == {k \in keys : ModuleOf(k) = module(h)}
                   recs == [i \in 1..Cardinality(ks) |->
                               Get(apis, Sorted(ks)[i])]
               IN  \E order \in Orders(recs) :
                       /\ \A i, j \in DOMAIN order :
                              i < j => ~StrLess(order[j].name, order[i].name)
                       /\ BlockOf(h) =
                              [i \in DOMAIN order |->
                                  Replace(order[i].signature, prefix, <<>>)]

\* C9: in each section of a written report the module headings are in
\* lexicographic order and the records of a module in lexicographic order
\* of name, and the lines of the report are the same whatever the order the
\* records were inserted in.
ReportSorted ==
    pc = "done" =>
        /\ SectionSorted(LineOf(COMMON_TITLE), LineOf(ZENOH_TITLE),
                         common, zenoh_apis, ZENOH_PREFIX)
        /\ SectionSorted(LineOf(ZENOH_TITLE), LineOf(RCL_TITLE),
                         zenoh_only, zenoh_apis, ZENOH_PREFIX)
        /\ SectionSorted(LineOf(RCL_TITLE), Len(lines),
                         rcl_only, rcl_apis, RCL_PREFIX)
        /\ \A z \in Orders(zenoh_apis), r \in Orders(rcl_apis) :
               ReportLines(z, r) = lines

\* A report with a section in which the order of the keys is neither the
\* order of the names inside a module nor, for the modules, the order of
\* insertion.
ReportSortedWitness ==
    /\ pc = "done"
    /\ \E k1, k2 \in zenoh_only :
           /\ ModuleOf(k1) = ModuleOf(k2)
           /\ StrLess(k1, k2)
           /\ StrLess(Get(zenoh_apis, k2).name, Get(zenoh_apis, k1).name)
    /\ \E k1, k2 \in rcl_only :
           /\ StrLess(k1, k2)
           /\ StrLess(ModuleOf(k2), ModuleOf(k1))

----------------------------------------------------------------------------
(* C10 *)

\* What each line of output yields, by its place in the listing: <<>> or
\* <<record>>.
Yield(output, crate_name) ==
    [i \in DOMAIN SplitLines(output) |->
        LET line == Trim(SplitLines(output)[i])
        IN  IF StartsWith(line, PUB) THEN parse_api_line(line, crate_name)
            ELSE <<>>]

\* apis holds one record for each key the surviving lines normalize to, and
\* it is the record of the last of them.
LastWins(apis, output, crate_name) ==
    LET yield == Yield(output, crate_name)
        live  == {i \in DOMAIN yield : yield[i] # <<>>}
        keyOf == [i \in live |-> Normalize(yield[i][1].path, crate_name)]
    IN  /\ \A a, b \in DOMAIN apis : a # b => apis[a].key # apis[b].key
        /\ Keys(apis) = {keyOf[i] : i \in live}
        /\ \A i \in live :
               (\A j \in live : j > i => keyOf[j] # keyOf[i])
               => \E e \in DOMAIN apis :
                      /\ apis[e].key = keyOf[i]
                      /\ apis[e].item = yield[i][1]

\* C10: when extract_apis returns, every normalized key maps to the record
\* of the last surviving line of the listing that normalizes to it, and the
\* registry holds one record per key.
LastLineWins ==
    /\ pc = "run_rcl" => LastWins(zenoh_apis, zenoh_output, OXIDROS_ZENOH)
    /\ pc = "generate" => LastWins(rcl_apis, rcl_output, OXIDROS_RCL)

\* Two surviving lines with different records collided on one key.
LastLineWinsWitness ==
    LET yield == Yield(zenoh_output, OXIDROS_ZENOH)
    IN  /\ pc = "run_rcl"
        /\ \E i, j \in DOMAIN yield :
               /\ i < j
               /\ yield[i] # <<>>
               /\ yield[j] # <<>>
               /\ yield[i] # yield[j]
               /\ Normalize(yield[i][1].path, OXIDROS_ZENOH)
                      = Normalize(yield[j][1].path, OXIDROS_ZENOH)
        /\ Len(zenoh_apis) = 1

============================================================================
